---- MODULE Spec2Model ----
(***************************************************************************)
(* Model of the replication orchestrator in replicator/src/lib.rs: the     *)
(* Replicator with its feed registry (feeds), subscriber hub (subscribers) *)
(* and task list (tasks), its public operations add_feed, subscribe,       *)
(* stats and join_all, and the per-connection task spawned by run_peer.    *)
(* Every await of the source is a step boundary; the async mutexes are     *)
(* modelled by their holder.                                               *)
(***************************************************************************)
EXTENDS Naturals, Sequences, FiniteSets, TLC

\* ------------------------------------------------------------------ bounds
\* add_feed calls in one run
MaxAddFeed == 2
\* stats and join_all calls in one run
MaxQueries == 1
\* wire events one connection delivers
MaxWire == 2

\* ------------------------------------------------------------ the universe
Sessions == {"s1", "s2"}
Callers == {"c1", "c2"}
ExtSubs == {"x1"}
SubIds == Sessions \cup ExtSubs
PublicKeys == {"pkA", "pkB"}
RemoteKeys == {"rkP", "rkQ"}
WireKeys == {"dkA", "dkB"}
None == "none"
Free == "free"

\* hypercore_protocol::discovery_key: a one-way function of the public key
discovery_key(pk) == CASE pk = "pkA" -> "dkA" [] pk = "pkB" -> "dkB"

\* the public key a discovery key was derived from
FeedOfKey(dk) == CHOOSE pk \in PublicKeys : discovery_key(pk) = dk

VARIABLES
    feeds,        \* Replicator.feeds: discovery key -> PeeredFeed
    feedsLock,    \* holder of the feeds mutex
    feedLock,     \* holder of each Feed's own mutex
    subscribers,  \* Replicator.subscribers: Vec of senders
    subsLock,     \* holder of the subscribers mutex
    tasks,        \* Replicator.tasks: Vec of join handles
    queue,        \* per receiver: events sent and not yet received
    rx,           \* per receiver: "none", "live" or "dropped"
    pc,           \* per connection task: where it is in run_peer
    rpk,          \* per connection task: remote_public_key
    cur,          \* per connection task: the event being handled
    hsTodo,       \* per connection task: feeds.values() still to visit
    cmds,         \* per connection task: open commands sent to proto_command
    wire,         \* per connection: kinds of the wire events taken so far
    cpc,          \* per caller: where it is in a public operation
    carg,         \* per caller: locals of the operation in progress
    ret,          \* per caller: the last operation to return and its value
    nQueries,     \* stats and join_all calls started
    regs,         \* history: public keys inserted by add_feed, in order
    emitted,      \* history: events in the order of their dispatch passes
    subAt,        \* history: Len(emitted) when the subscriber registered
    delivered,    \* history: every event ever enqueued for a receiver
    hsAt,         \* history: Len(regs) when the Handshake event was taken
    snapAt,       \* history: Len(regs) when the Handshake arm locked feeds
    hsKey,        \* history: the key carried by the session's Handshake
    addPeerLog,   \* history: add_peer calls
    term          \* per connection task: how it ended

vars == <<feeds, feedsLock, feedLock, subscribers, subsLock, tasks, queue, rx,
          pc, rpk, cur, hsTodo, cmds, wire, cpc, carg, ret,
          nQueries, regs, emitted, subAt, delivered, hsAt, snapAt, hsKey,
          addPeerLog, term>>

sessVars == <<pc, rpk, cur, hsTodo, cmds, hsAt, snapAt, hsKey, term>>
callVars == <<cpc, carg, ret, nQueries>>
hubVars == <<subscribers, subsLock, queue, rx, emitted, subAt, delivered>>
regVars == <<feeds, feedsLock, feedLock, regs>>

\* ----------------------------------------------------------------- helpers
Range(s) == {s[i] : i \in DOMAIN s}

FeedEvent(dk, n) == [type |-> "Feed", key |-> dk, reg |-> n]
DkeyEvent(dk) == [type |-> "DiscoveryKey", key |-> dk, reg |-> 0]

\* PeeredFeed::new(feed): the feed and no peers yet
NewPeeredFeed(pk, n) == [pk |-> pk, gen |-> n, peers |-> {}]

\* entry(dk).or_insert(v): an entry already under dk is kept
Insert_KeepFirst(m, dk, v) ==
    [k \in DOMAIN m \cup {dk} |-> IF k \in DOMAIN m THEN m[k] ELSE v]

\* HashMap::insert: the entry under dk is replaced
Insert(m, dk, v) == [k \in DOMAIN m \cup {dk} |-> IF k = dk THEN v ELSE m[k]]

\* locals of a public operation: the key read by add_feed, the entries
\* stats or join_all still awaits, the entries stats has collected
NoArg == [pk |-> None, todo |-> {}, acc |-> <<>>]

\* what a caller got back: Vec<(DiscoveryKey, Vec<Stats>)> or Ok(())
NoRet == [op |-> None, val |-> <<>>]

\* dropping a MutexGuard frees the mutex its owner holds
Unlock(holder, who) == IF holder = who THEN Free ELSE holder

\* ------------------------------------------------------------- Subscriber hub
\* UnboundedSender::send: Ok unless the receiver was dropped
SendOk(r) == r = "live"

\* only the first sender of the Vec is sent a copy
Targets_FirstOnly(subs, rxs) ==
    {subs[j] : j \in {k \in DOMAIN subs : k = 1 /\ SendOk(rxs[subs[k]])}}

\* try_join_all in place of join_all: the pass stops at the first failed send
Targets_StopAtError(subs, rxs) ==
    {subs[j] : j \in {k \in DOMAIN subs : \A l \in 1..k : SendOk(rxs[subs[l]])}}

\* emit, lines 67-69: every sender of the Vec is sent a copy and the results
\* are discarded, so the copies reach the receivers that still exist
Targets(subs, rxs) == {subs[j] : j \in {k \in DOMAIN subs : SendOk(rxs[subs[k]])}}

\* the dispatch pass of emit, run with the subscribers mutex held
Dispatch(ev) ==
    /\ queue' = [i \in SubIds |->
                    IF i \in Targets(subscribers, rx) THEN Append(queue[i], ev)
                    ELSE queue[i]]
    /\ delivered' = [i \in SubIds |->
                    IF i \in Targets(subscribers, rx) THEN Append(delivered[i], ev)
                    ELSE delivered[i]]
    /\ emitted' = Append(emitted, ev)

\* subscribe, lines 73-77: a new channel whose sender joins the Vec
Register(i) ==
    /\ subsLock = Free
    /\ subscribers' = Append(subscribers, i)
    /\ rx' = [rx EXCEPT ![i] = "live"]
    /\ subAt' = [subAt EXCEPT ![i] = Len(emitted)]
    /\ UNCHANGED <<subsLock, queue, emitted, delivered>>

\* ------------------------------------------------------------------- Init
Init ==
    /\ feeds = <<>>
    /\ feedsLock = Free
    /\ feedLock = [f \in PublicKeys |-> Free]
    /\ subscribers = <<>>
    /\ subsLock = Free
    /\ tasks = <<>>
    /\ queue = [i \in SubIds |-> <<>>]
    /\ rx = [i \in SubIds |-> "none"]
    /\ pc = [s \in Sessions |-> "idle"]
    /\ rpk = [s \in Sessions |-> None]
    /\ cur = [s \in Sessions |-> None]
    /\ hsTodo = [s \in Sessions |-> {}]
    /\ cmds = [s \in Sessions |-> <<>>]
    /\ wire = [s \in Sessions |-> <<>>]
    /\ cpc = [c \in Callers |-> "idle"]
    /\ carg = [c \in Callers |-> NoArg]
    /\ ret = [c \in Callers |-> NoRet]
    /\ nQueries = 0
    /\ regs = <<>>
    /\ emitted = <<>>
    /\ subAt = [i \in SubIds |-> 0]
    /\ delivered = [i \in SubIds |-> <<>>]
    /\ hsAt = [s \in Sessions |-> 0]
    /\ snapAt = [s \in Sessions |-> 0]
    /\ hsKey = [s \in Sessions |-> None]
    /\ addPeerLog = {}
    /\ term = [s \in Sessions |-> None]

\* ----------------------------------------------------------------- add_feed
AddFeedsStarted == Len(regs) + Cardinality({c \in Callers : cpc[c] = "af_lock"})

\* line 58: the feed's own mutex is taken for the read of its public key
AddFeedBegin(c, pk) ==
    /\ cpc[c] = "idle"
    /\ AddFeedsStarted < MaxAddFeed
    /\ feedLock[pk] = Free
    /\ cpc' = [cpc EXCEPT ![c] = "af_lock"]
    /\ carg' = [carg EXCEPT ![c] = [NoArg EXCEPT !.pk = pk]]
    /\ UNCHANGED <<ret, nQueries, regVars, hubVars, sessVars, tasks, wire, addPeerLog>>

\* lines 59-62: the registry is locked and the entry inserted
AddFeedInsert(c) ==
    /\ cpc[c] = "af_lock"
    /\ feedsLock = Free
    /\ feedsLock' = c
    /\ feeds' = Insert(feeds, discovery_key(carg[c].pk),
                       NewPeeredFeed(carg[c].pk, Len(regs) + 1))
    /\ regs' = Append(regs, carg[c].pk)
    /\ cpc' = [cpc EXCEPT ![c] = "af_emit"]
    /\ UNCHANGED <<carg, ret, nQueries, feedLock, hubVars, sessVars, tasks,
                   wire, addPeerLog>>

\* line 67, called from line 63 with the registry still locked
AddFeedEmitLock(c) ==
    /\ cpc[c] = "af_emit"
    /\ subsLock = Free
    /\ subsLock' = c
    /\ cpc' = [cpc EXCEPT ![c] = "af_send"]
    /\ UNCHANGED <<carg, ret, nQueries, regVars, subscribers, queue, rx,
                   emitted, subAt, delivered, sessVars, tasks, wire,
                   addPeerLog>>

\* lines 68-70 and the return of add_feed: both guards are dropped
AddFeedEmitSend(c) ==
    /\ cpc[c] = "af_send"
    /\ Dispatch(FeedEvent(discovery_key(carg[c].pk), feeds[discovery_key(carg[c].pk)].gen))
    /\ subsLock' = Unlock(subsLock, c)
    /\ feedsLock' = Unlock(feedsLock, c)
    /\ cpc' = [cpc EXCEPT ![c] = "idle"]
    /\ carg' = [carg EXCEPT ![c] = NoArg]
    /\ UNCHANGED <<ret, nQueries, feeds, feedLock, regs, subscribers, rx, subAt,
                   sessVars, tasks, wire, addPeerLog>>

\* ---------------------------------------------------------------- subscribe
\* the public subscribe(), called by an outside consumer
Subscribe(x) ==
    /\ rx[x] = "none"
    /\ Register(x)
    /\ UNCHANGED <<callVars, regVars, sessVars, tasks, wire, addPeerLog>>

\* ----------------------------------------------------------------- run_peer
\* an open command as the wire session receives it; feed, via and reg record
\* which registration the command was issued for
OpenCmd(arg, pk, via, n) == [arg |-> arg, feed |-> pk, via |-> via, reg |-> n]

\* line 140: the Handshake arm opens with the feed's public key
SnapshotOpenArg(entry) == entry.pk

\* line 160: the Feed arm opens with the key the event carries
BroadcastOpenArg(ev) == ev.key

\* the identity is not checked: unwrap_or_default() in place of unwrap()
ChannelOutcome_NoUnwrap(found, id) == IF found THEN "add_peer" ELSE "drop"

\* the identity is unwrapped before the lookup
ChannelOutcome_UnwrapFirst(found, id) ==
    IF id = None THEN "panic" ELSE IF found THEN "add_peer" ELSE "drop"

\* lines 145-149: what the Channel arm does with the looked-up entry
ChannelOutcome(found, id) ==
    IF found THEN (IF id = None THEN "panic" ELSE "add_peer") ELSE "drop"

\* a wire session that may yield Handshake again on an established connection
HsSeen_Never(s) == FALSE

\* the wire session yields Handshake once per connection
HsSeen(s) == \E i \in DOMAIN wire[s] : wire[s][i] = "Handshake"

\* the task ends: its locals, the hub receiver among them, are dropped
Ended(s, why) ==
    /\ pc' = [pc EXCEPT ![s] = "done"]
    /\ term' = [term EXCEPT ![s] = why]
    /\ cur' = [cur EXCEPT ![s] = None]
    /\ rx' = [rx EXCEPT ![s] = "dropped"]
    /\ queue' = [queue EXCEPT ![s] = <<>>]

\* add_stream / add_io, lines 80-95, and run_peer lines 119-120, 168
AddConnection(s) ==
    /\ pc[s] = "idle"
    /\ pc' = [pc EXCEPT ![s] = "sub"]
    /\ tasks' = Append(tasks, s)
    /\ UNCHANGED <<callVars, regVars, hubVars, rpk, cur, hsTodo, cmds, hsAt,
                   snapAt, hsKey, term, wire, addPeerLog>>

\* the task enters its loop over the wire events alone, without a hub
\* subscription
SessSubscribe_WireOnly(s) ==
    /\ pc[s] = "sub"
    /\ pc' = [pc EXCEPT ![s] = "loop"]
    /\ UNCHANGED <<callVars, regVars, hubVars, rpk, cur, hsTodo, cmds, hsAt, snapAt,
                   hsKey, term, tasks, wire, addPeerLog>>

\* line 121: the task subscribes before it looks at any event
SessSubscribe(s) ==
    /\ pc[s] = "sub"
    /\ Register(s)
    /\ pc' = [pc EXCEPT ![s] = "loop"]
    /\ UNCHANGED <<callVars, regVars, rpk, cur, hsTodo, cmds, hsAt, snapAt,
                   hsKey, term, tasks, wire, addPeerLog>>

\* lines 133-134: Handshake(key) is taken off the wire stream
RecvHandshake(s, k) ==
    /\ pc[s] = "loop"
    /\ Len(wire[s]) < MaxWire
    /\ ~HsSeen(s)
    /\ wire' = [wire EXCEPT ![s] = Append(@, "Handshake")]
    /\ rpk' = [rpk EXCEPT ![s] = k]
    /\ hsKey' = [hsKey EXCEPT ![s] = k]
    /\ hsAt' = [hsAt EXCEPT ![s] = Len(regs)]
    /\ pc' = [pc EXCEPT ![s] = "hs_lock"]
    /\ UNCHANGED <<callVars, regVars, hubVars, cur, hsTodo, cmds, snapAt, term,
                   tasks, addPeerLog>>

\* line 136: the registry is locked for the whole loop over feeds.values()
HsLock(s) ==
    /\ pc[s] = "hs_lock"
    /\ feedsLock = Free
    /\ feedsLock' = s
    /\ hsTodo' = [hsTodo EXCEPT ![s] = DOMAIN feeds]
    /\ snapAt' = [snapAt EXCEPT ![s] = Len(regs)]
    /\ pc' = [pc EXCEPT ![s] = "hs_iter"]
    /\ UNCHANGED <<callVars, feeds, feedLock, regs, hubVars, rpk, cur, cmds,
                   hsAt, hsKey, term, tasks, wire, addPeerLog>>

\* lines 137-140: the next entry; its feed is locked, its key read and the
\* open command sent, with the registry and the feed still locked
HsNext(s, dk) ==
    /\ pc[s] = "hs_iter"
    /\ dk \in hsTodo[s]
    /\ feedLock[feeds[dk].pk] = Free
    /\ feedLock' = [feedLock EXCEPT ![feeds[dk].pk] = s]
    /\ hsTodo' = [hsTodo EXCEPT ![s] = @ \ {dk}]
    /\ cmds' = [cmds EXCEPT ![s] =
                   Append(@, OpenCmd(SnapshotOpenArg(feeds[dk]), feeds[dk].pk,
                                     "snapshot", feeds[dk].gen))]
    /\ pc' = [pc EXCEPT ![s] = "hs_open"]
    /\ UNCHANGED <<callVars, feeds, feedsLock, regs, hubVars, rpk, cur, hsAt,
                   snapAt, hsKey, term, tasks, wire, addPeerLog>>

\* line 140: open(..).await returned Ok; the feed guard is dropped (line 141)
HsOpenOk(s) ==
    /\ pc[s] = "hs_open"
    /\ feedLock' = [f \in PublicKeys |-> Unlock(feedLock[f], s)]
    /\ pc' = [pc EXCEPT ![s] = "hs_iter"]
    /\ UNCHANGED <<callVars, feeds, feedsLock, regs, hubVars, rpk, cur, hsTodo,
                   cmds, hsAt, snapAt, hsKey, term, tasks, wire,
                   addPeerLog>>

\* the failed open is recorded and the loop goes on to the next entry
HsOpenFail_SkipFeed(s) ==
    /\ pc[s] = "hs_open"
    /\ feedLock' = [f \in PublicKeys |-> Unlock(feedLock[f], s)]
    /\ term' = [term EXCEPT ![s] = "panic"]
    /\ pc' = [pc EXCEPT ![s] = "hs_iter"]
    /\ UNCHANGED <<callVars, feeds, feedsLock, regs, hubVars, rpk, cur, hsTodo,
                   cmds, hsAt, snapAt, hsKey, tasks, wire, addPeerLog>>

\* the task ends on the failed open with its two guards leaked
HsOpenFail_LeakGuards(s) ==
    /\ pc[s] = "hs_open"
    /\ hsTodo' = [hsTodo EXCEPT ![s] = {}]
    /\ Ended(s, "panic")
    /\ UNCHANGED <<callVars, regVars, subscribers, subsLock, emitted, subAt,
                   delivered, rpk, cmds, hsAt, snapAt, hsKey, tasks, wire, addPeerLog>>

\* line 140: open(..).await returned Err and unwrap() panics; the unwinding
\* task drops both guards
HsOpenFail(s) ==
    /\ pc[s] = "hs_open"
    /\ feedLock' = [f \in PublicKeys |-> Unlock(feedLock[f], s)]
    /\ feedsLock' = Unlock(feedsLock, s)
    /\ hsTodo' = [hsTodo EXCEPT ![s] = {}]
    /\ Ended(s, "panic")
    /\ UNCHANGED <<callVars, feeds, regs, subscribers, subsLock, emitted, subAt,
                   delivered, rpk, cmds, hsAt, snapAt, hsKey, tasks, wire, addPeerLog>>

\* the registry guard outlives the Handshake arm
HsDone_KeepGuard(s) ==
    /\ pc[s] = "hs_iter"
    /\ hsTodo[s] = {}
    /\ pc' = [pc EXCEPT ![s] = "loop"]
    /\ UNCHANGED <<callVars, regVars, hubVars, rpk, cur, hsTodo,
                   cmds, hsAt, snapAt, hsKey, term, tasks, wire,
                   addPeerLog>>

\* line 142: the loop over feeds.values() is over and the registry unlocked
HsDone(s) ==
    /\ pc[s] = "hs_iter"
    /\ hsTodo[s] = {}
    /\ feedsLock' = Unlock(feedsLock, s)
    /\ pc' = [pc EXCEPT ![s] = "loop"]
    /\ UNCHANGED <<callVars, feeds, feedLock, regs, hubVars, rpk, cur, hsTodo,
                   cmds, hsAt, snapAt, hsKey, term, tasks, wire,
                   addPeerLog>>

\* line 143: Channel(channel) is taken off the wire stream
RecvChannel(s, dk) ==
    /\ pc[s] = "loop"
    /\ Len(wire[s]) < MaxWire
    /\ wire' = [wire EXCEPT ![s] = Append(@, "Channel")]
    /\ cur' = [cur EXCEPT ![s] = dk]
    /\ pc' = [pc EXCEPT ![s] = "ch_lock"]
    /\ UNCHANGED <<callVars, regVars, hubVars, rpk, hsTodo, cmds, hsAt, snapAt,
                   hsKey, term, tasks, addPeerLog>>

\* PeeredFeed::add_peer: a sub-session for the remote identity
AddPeer(entry, id, s) ==
    [entry EXCEPT !.peers = {p \in @ : p.id # id} \cup {[id |-> id, by |-> s]}]

\* lines 144-145, 148-150: the key is not in the registry; nothing happens
ChDrop(s) ==
    /\ pc[s] = "ch_lock"
    /\ feedsLock = Free
    /\ ChannelOutcome(cur[s] \in DOMAIN feeds, rpk[s]) = "drop"
    /\ cur' = [cur EXCEPT ![s] = None]
    /\ pc' = [pc EXCEPT ![s] = "loop"]
    /\ UNCHANGED <<callVars, regVars, hubVars, rpk, hsTodo, cmds, hsAt, snapAt,
                   hsKey, term, tasks, wire, addPeerLog>>

\* lines 144-146: the key is registered and remote_public_key is None:
\* unwrap() panics and the unwinding task drops the registry guard
ChPanic(s) ==
    /\ pc[s] = "ch_lock"
    /\ feedsLock = Free
    /\ ChannelOutcome(cur[s] \in DOMAIN feeds, rpk[s]) = "panic"
    /\ Ended(s, "panic")
    /\ UNCHANGED <<callVars, regVars, subscribers, subsLock, emitted, subAt,
                   delivered, rpk, hsTodo, cmds, hsAt, snapAt, hsKey, tasks,
                   wire, addPeerLog>>

\* lines 144-147: the key is registered; add_peer is called with the
\* registry locked
ChAddPeer(s) ==
    /\ pc[s] = "ch_lock"
    /\ feedsLock = Free
    /\ ChannelOutcome(cur[s] \in DOMAIN feeds, rpk[s]) = "add_peer"
    /\ feedsLock' = s
    /\ feeds' = [feeds EXCEPT ![cur[s]] = AddPeer(@, rpk[s], s)]
    /\ addPeerLog' = addPeerLog \cup {[by |-> s, key |-> cur[s], id |-> rpk[s]]}
    /\ pc' = [pc EXCEPT ![s] = "ch_addpeer"]
    /\ UNCHANGED <<callVars, feedLock, regs, hubVars, rpk, cur, hsTodo, cmds,
                   hsAt, snapAt, hsKey, term, tasks, wire>>

\* line 147: add_peer(..).await returned; line 150 drops the registry guard
ChAddPeerDone(s) ==
    /\ pc[s] = "ch_addpeer"
    /\ feedsLock' = Unlock(feedsLock, s)
    /\ cur' = [cur EXCEPT ![s] = None]
    /\ pc' = [pc EXCEPT ![s] = "loop"]
    /\ UNCHANGED <<callVars, feeds, feedLock, regs, hubVars, rpk, hsTodo, cmds,
                   hsAt, snapAt, hsKey, term, tasks, wire, addPeerLog>>

\* a peer sub-session of a feed finishes
PeerFinish(dk, p) ==
    /\ dk \in DOMAIN feeds
    /\ p \in feeds[dk].peers
    /\ feeds' = [feeds EXCEPT ![dk].peers = @ \ {p}]
    /\ UNCHANGED <<callVars, feedsLock, feedLock, regs, hubVars, sessVars, tasks,
                   wire, addPeerLog>>

\* a request for an unknown feed is treated as a protocol error
RecvDiscoveryKey_Fatal(s, dk) ==
    /\ pc[s] = "loop"
    /\ Len(wire[s]) < MaxWire
    /\ wire' = [wire EXCEPT ![s] = Append(@, "DiscoveryKey")]
    /\ Ended(s, "error")
    /\ UNCHANGED <<callVars, regVars, subscribers, subsLock, emitted, subAt,
                   delivered, rpk, hsTodo, cmds, hsAt, snapAt, hsKey, tasks, addPeerLog>>

\* line 151: DiscoveryKey(dkey) is taken off the wire stream
RecvDiscoveryKey(s, dk) ==
    /\ pc[s] = "loop"
    /\ Len(wire[s]) < MaxWire
    /\ wire' = [wire EXCEPT ![s] = Append(@, "DiscoveryKey")]
    /\ cur' = [cur EXCEPT ![s] = dk]
    /\ pc' = [pc EXCEPT ![s] = "dk_lock"]
    /\ UNCHANGED <<callVars, regVars, hubVars, rpk, hsTodo, cmds, hsAt, snapAt,
                   hsKey, term, tasks, addPeerLog>>

\* line 67, called from line 152
DkEmitLock(s) ==
    /\ pc[s] = "dk_lock"
    /\ subsLock = Free
    /\ subsLock' = s
    /\ pc' = [pc EXCEPT ![s] = "dk_send"]
    /\ UNCHANGED <<callVars, regVars, subscribers, queue, rx, emitted, subAt,
                   delivered, rpk, cur, hsTodo, cmds, hsAt, snapAt, hsKey, term,
                   tasks, wire, addPeerLog>>

\* lines 68-70, called from line 152
DkEmitSend(s) ==
    /\ pc[s] = "dk_send"
    /\ Dispatch(DkeyEvent(cur[s]))
    /\ subsLock' = Unlock(subsLock, s)
    /\ cur' = [cur EXCEPT ![s] = None]
    /\ pc' = [pc EXCEPT ![s] = "loop"]
    /\ UNCHANGED <<callVars, regVars, subscribers, rx, subAt, rpk, hsTodo, cmds,
                   hsAt, snapAt, hsKey, term, tasks, wire, addPeerLog>>

\* the error is logged and the loop goes on to the next event
RecvError_LogOnly(s) ==
    /\ pc[s] = "loop"
    /\ Len(wire[s]) < MaxWire
    /\ wire' = [wire EXCEPT ![s] = Append(@, "Error")]
    /\ UNCHANGED <<callVars, regVars, hubVars, sessVars, tasks, addPeerLog>>

\* lines 154-157: the wire stream yields an error and the task returns it
RecvError(s) ==
    /\ pc[s] = "loop"
    /\ Len(wire[s]) < MaxWire
    /\ wire' = [wire EXCEPT ![s] = Append(@, "Error")]
    /\ Ended(s, "error")
    /\ UNCHANGED <<callVars, regVars, subscribers, subsLock, emitted, subAt,
                   delivered, rpk, hsTodo, cmds, hsAt, snapAt, hsKey, tasks, addPeerLog>>

\* the open command is sent whether or not the remote identity is known
RecvFeedOpen_NoIdentityCheck(s) ==
    /\ pc[s] = "loop"
    /\ queue[s] # <<>>
    /\ Head(queue[s]).type = "Feed"
    /\ queue' = [queue EXCEPT ![s] = Tail(@)]
    /\ cmds' = [cmds EXCEPT ![s] =
                   Append(@, OpenCmd(BroadcastOpenArg(Head(queue[s])),
                                     FeedOfKey(Head(queue[s]).key), "broadcast",
                                     Head(queue[s]).reg))]
    /\ pc' = [pc EXCEPT ![s] = "fd_open"]
    /\ UNCHANGED <<callVars, regVars, subscribers, subsLock, rx, emitted, subAt,
                   delivered, rpk, cur, hsTodo, hsAt, snapAt, hsKey, term, tasks,
                   wire, addPeerLog>>

\* lines 158-160: Feed(key) is taken off the hub receiver with the remote
\* identity known, and the open command is sent
RecvFeedOpen(s) ==
    /\ pc[s] = "loop"
    /\ queue[s] # <<>>
    /\ Head(queue[s]).type = "Feed"
    /\ rpk[s] # None
    /\ queue' = [queue EXCEPT ![s] = Tail(@)]
    /\ cmds' = [cmds EXCEPT ![s] =
                   Append(@, OpenCmd(BroadcastOpenArg(Head(queue[s])),
                                     FeedOfKey(Head(queue[s]).key), "broadcast",
                                     Head(queue[s]).reg))]
    /\ pc' = [pc EXCEPT ![s] = "fd_open"]
    /\ UNCHANGED <<callVars, regVars, subscribers, subsLock, rx, emitted, subAt,
                   delivered, rpk, cur, hsTodo, hsAt, snapAt, hsKey, term, tasks,
                   wire, addPeerLog>>

\* the hub event is taken and dropped whatever it is
RecvIgnored_AnyEvent(s) ==
    /\ pc[s] = "loop"
    /\ queue[s] # <<>>
    /\ queue' = [queue EXCEPT ![s] = Tail(@)]
    /\ UNCHANGED <<callVars, regVars, subscribers, subsLock, rx, emitted, subAt,
                   delivered, sessVars, tasks, wire, addPeerLog>>

\* lines 158-159, 163: Feed(key) before the handshake, or DiscoveryKey(key):
\* the event is taken off the hub receiver and nothing is done
RecvIgnored(s) ==
    /\ pc[s] = "loop"
    /\ queue[s] # <<>>
    /\ ~(Head(queue[s]).type = "Feed" /\ rpk[s] # None)
    /\ queue' = [queue EXCEPT ![s] = Tail(@)]
    /\ UNCHANGED <<callVars, regVars, subscribers, subsLock, rx, emitted, subAt,
                   delivered, sessVars, tasks, wire, addPeerLog>>

\* line 160: open(..).await returned Ok
FdOpenOk(s) ==
    /\ pc[s] = "fd_open"
    /\ pc' = [pc EXCEPT ![s] = "loop"]
    /\ UNCHANGED <<callVars, regVars, hubVars, rpk, cur, hsTodo, cmds, hsAt,
                   snapAt, hsKey, term, tasks, wire, addPeerLog>>

\* line 160: open(..).await returned Err and unwrap() panics
FdOpenFail(s) ==
    /\ pc[s] = "fd_open"
    /\ Ended(s, "panic")
    /\ UNCHANGED <<callVars, regVars, subscribers, subsLock, emitted, subAt,
                   delivered, rpk, hsTodo, cmds, hsAt, snapAt, hsKey, tasks,
                   wire, addPeerLog>>

\* -------------------------------------------------------------------- stats
\* PeeredFeed::stats: one Stats per peer sub-session of the feed
PeerStats(entry) == Cardinality(entry.peers)

StatsBegin(c) ==
    /\ cpc[c] = "idle"
    /\ nQueries < MaxQueries
    /\ nQueries' = nQueries + 1
    /\ cpc' = [cpc EXCEPT ![c] = "st_lock"]
    /\ UNCHANGED <<carg, ret, regVars, hubVars, sessVars, tasks, wire, addPeerLog>>

\* the entries are collected without the registry locked
StatsLock_NoLock(c) ==
    /\ cpc[c] = "st_lock"
    /\ carg' = [carg EXCEPT ![c] = [NoArg EXCEPT !.todo = DOMAIN feeds]]
    /\ cpc' = [cpc EXCEPT ![c] = "st_iter"]
    /\ UNCHANGED <<ret, nQueries, regVars, hubVars, sessVars, tasks, wire,
                   addPeerLog>>

\* lines 99-102: the registry is locked and one future made per entry
StatsLock(c) ==
    /\ cpc[c] = "st_lock"
    /\ feedsLock = Free
    /\ feedsLock' = c
    /\ carg' = [carg EXCEPT ![c] = [NoArg EXCEPT !.todo = DOMAIN feeds]]
    /\ cpc' = [cpc EXCEPT ![c] = "st_iter"]
    /\ UNCHANGED <<ret, nQueries, feeds, feedLock, regs, hubVars, sessVars,
                   tasks, wire, addPeerLog>>

\* line 103: one of the futures completes with (dkey, stats)
StatsStep(c, dk) ==
    /\ cpc[c] = "st_iter"
    /\ dk \in carg[c].todo
    /\ dk \in DOMAIN feeds
    /\ carg' = [carg EXCEPT ![c].todo = @ \ {dk},
                            ![c].acc = Append(@, <<dk, PeerStats(feeds[dk])>>)]
    /\ UNCHANGED <<cpc, ret, nQueries, regVars, hubVars, sessVars, tasks,
                   wire, addPeerLog>>

\* lines 103-105: all futures are complete; the Vec is returned and the
\* registry guard dropped
StatsReturn(c) ==
    /\ cpc[c] = "st_iter"
    /\ carg[c].todo = {}
    /\ ret' = [ret EXCEPT ![c] = [op |-> "stats", val |-> carg[c].acc]]
    /\ feedsLock' = Unlock(feedsLock, c)
    /\ carg' = [carg EXCEPT ![c] = NoArg]
    /\ cpc' = [cpc EXCEPT ![c] = "idle"]
    /\ UNCHANGED <<nQueries, feeds, feedLock, regs, hubVars, sessVars, tasks,
                   wire, addPeerLog>>

\* ----------------------------------------------------------------- join_all
\* PeeredFeed::join_all completes when the feed has no peer sub-session left
PeersJoined(entry) == entry.peers = {}

JoinAllBegin(c) ==
    /\ cpc[c] = "idle"
    /\ nQueries < MaxQueries
    /\ nQueries' = nQueries + 1
    /\ cpc' = [cpc EXCEPT ![c] = "ja_lock"]
    /\ UNCHANGED <<carg, ret, regVars, hubVars, sessVars, tasks, wire, addPeerLog>>

\* the feeds are awaited without the registry locked
JoinAllLock_NoLock(c) ==
    /\ cpc[c] = "ja_lock"
    /\ carg' = [carg EXCEPT ![c] = [NoArg EXCEPT !.todo = DOMAIN feeds]]
    /\ cpc' = [cpc EXCEPT ![c] = "ja_wait"]
    /\ UNCHANGED <<ret, nQueries, regVars, hubVars, sessVars, tasks, wire,
                   addPeerLog>>

\* lines 109-110: the registry is locked and one future made per entry
JoinAllLock(c) ==
    /\ cpc[c] = "ja_lock"
    /\ feedsLock = Free
    /\ feedsLock' = c
    /\ carg' = [carg EXCEPT ![c] = [NoArg EXCEPT !.todo = DOMAIN feeds]]
    /\ cpc' = [cpc EXCEPT ![c] = "ja_wait"]
    /\ UNCHANGED <<ret, nQueries, feeds, feedLock, regs, hubVars, sessVars,
                   tasks, wire, addPeerLog>>

\* line 111: the future of one entry completes
JoinAllStep(c, dk) ==
    /\ cpc[c] = "ja_wait"
    /\ dk \in carg[c].todo
    /\ dk \in DOMAIN feeds
    /\ PeersJoined(feeds[dk])
    /\ carg' = [carg EXCEPT ![c].todo = @ \ {dk}]
    /\ UNCHANGED <<cpc, ret, nQueries, regVars, hubVars, sessVars, tasks,
                   wire, addPeerLog>>

\* the handles of Replicator.tasks are awaited as well before Ok(()) is
\* returned
JoinAllReturn_AwaitTasks(c) ==
    /\ cpc[c] = "ja_wait"
    /\ carg[c].todo = {}
    /\ \A s \in Range(tasks) : pc[s] = "done"
    /\ ret' = [ret EXCEPT ![c] = [op |-> "join_all", val |-> <<>>]]
    /\ feedsLock' = Unlock(feedsLock, c)
    /\ carg' = [carg EXCEPT ![c] = NoArg]
    /\ cpc' = [cpc EXCEPT ![c] = "idle"]
    /\ UNCHANGED <<nQueries, feeds, feedLock, regs, hubVars, sessVars,
                   tasks, wire, addPeerLog>>

\* lines 111-113: all futures are complete; Ok(()) is returned and the
\* registry guard dropped
JoinAllReturn(c) ==
    /\ cpc[c] = "ja_wait"
    /\ carg[c].todo = {}
    /\ ret' = [ret EXCEPT ![c] = [op |-> "join_all", val |-> <<>>]]
    /\ feedsLock' = Unlock(feedsLock, c)
    /\ carg' = [carg EXCEPT ![c] = NoArg]
    /\ cpc' = [cpc EXCEPT ![c] = "idle"]
    /\ UNCHANGED <<nQueries, feeds, feedLock, regs, hubVars, sessVars,
                   tasks, wire, addPeerLog>>

\* ---------------------------------------------------------- specification
AddFeedOp(c) ==
    \/ \E pk \in PublicKeys : AddFeedBegin(c, pk)
    \/ AddFeedInsert(c)
    \/ AddFeedEmitLock(c)
    \/ AddFeedEmitSend(c)

StatsOp(c) ==
    \/ StatsBegin(c)
    \/ StatsLock(c)
    \/ \E dk \in WireKeys : StatsStep(c, dk)
    \/ StatsReturn(c)

JoinAllOp(c) ==
    \/ JoinAllBegin(c)
    \/ JoinAllLock(c)
    \/ \E dk \in WireKeys : JoinAllStep(c, dk)
    \/ JoinAllReturn(c)

HandshakeArm(s) ==
    \/ \E k \in RemoteKeys : RecvHandshake(s, k)
    \/ HsLock(s)
    \/ \E dk \in WireKeys : HsNext(s, dk)
    \/ HsOpenOk(s)
    \/ HsOpenFail(s)
    \/ HsDone(s)

ChannelArm(s) ==
    \/ \E dk \in WireKeys : RecvChannel(s, dk)
    \/ ChDrop(s)
    \/ ChPanic(s)
    \/ ChAddPeer(s)
    \/ ChAddPeerDone(s)

DiscoveryKeyArm(s) ==
    \/ \E dk \in WireKeys : RecvDiscoveryKey(s, dk)
    \/ DkEmitLock(s)
    \/ DkEmitSend(s)

FeedArm(s) ==
    \/ RecvFeedOpen(s)
    \/ RecvIgnored(s)
    \/ FdOpenOk(s)
    \/ FdOpenFail(s)

PeersOp ==
    \E dk \in WireKeys : \E p \in (IF dk \in DOMAIN feeds THEN feeds[dk].peers ELSE {}) :
        PeerFinish(dk, p)

\* one connection and two concurrent callers of add_feed
Next ==
    \/ \E c \in Callers : AddFeedOp(c)
    \/ \E s \in {"s1"} : AddConnection(s) \/ SessSubscribe(s) \/ HandshakeArm(s)
                            \/ ChannelArm(s) \/ FeedArm(s) \/ RecvError(s)
    \/ PeersOp

Spec == Init /\ [][Next]_vars

\* the users of the registry: one connection, one caller of add_feed and one
\* caller of stats
NextStats ==
    \/ \E c \in {"c1"} : AddFeedOp(c)
    \/ \E c \in {"c2"} : StatsOp(c)
    \/ \E s \in {"s1"} : AddConnection(s) \/ SessSubscribe(s) \/ HandshakeArm(s)
                            \/ ChannelArm(s)
    \/ PeersOp

SpecStats == Init /\ [][NextStats]_vars

\* the same with a caller of join_all
NextJoin ==
    \/ \E c \in {"c1"} : AddFeedOp(c)
    \/ \E c \in {"c2"} : JoinAllOp(c)
    \/ \E s \in {"s1"} : AddConnection(s) \/ SessSubscribe(s) \/ HandshakeArm(s)
                            \/ ChannelArm(s)
    \/ PeersOp

SpecJoin == Init /\ [][NextJoin]_vars

\* the users of the hub: a caller of add_feed, an outside subscriber and a
\* connection that has not handshaken and is asked for unknown feeds
NextHub ==
    \/ \E c \in {"c1"} : AddFeedOp(c)
    \/ \E x \in ExtSubs : Subscribe(x)
    \/ \E s \in {"s1"} : AddConnection(s) \/ SessSubscribe(s) \/ DiscoveryKeyArm(s)
                            \/ RecvIgnored(s) \/ RecvError(s)

SpecHub == Init /\ [][NextHub]_vars

\* ------------------------------------------------------------------ claims
\* the open commands session s has issued for the feed with public key pk
OpensFor(s, pk) == {i \in DOMAIN cmds[s] : cmds[s][i].feed = pk}

\* the open commands session s has issued for the n-th add_feed call
OpensForReg(s, n) == {i \in DOMAIN cmds[s] : cmds[s][i].reg = n}

\* the public keys the first n add_feed calls registered
RegisteredBy(n) == {regs[i] : i \in 1..n}

\* the Handshake arm of session s has run to its end
HandshakeDone(s) ==
    HsSeen(s) /\ pc[s] \in {"loop", "ch_lock", "ch_addpeer", "dk_lock", "dk_send", "fd_open"}

\* C1: a session whose Handshake event is taken after feed F was registered
\* issues exactly one open command for F over its whole lifetime: never a
\* second one, and one once the Handshake arm has run to its end.
C1_ExactlyOneOpenPerSnapshotFeed ==
    \A s \in Sessions : \A pk \in PublicKeys :
        (HsSeen(s) /\ pk \in RegisteredBy(hsAt[s])) =>
            /\ Cardinality(OpensFor(s, pk)) <= 1
            /\ HandshakeDone(s) => Cardinality(OpensFor(s, pk)) = 1

\* C3: every open command carries the public key of the feed it is issued
\* for, on the snapshot path and on the broadcast path alike.
C3_OpenCarriesPublicKey ==
    \A s \in Sessions : \A i \in DOMAIN cmds[s] :
        /\ cmds[s][i].arg = cmds[s][i].feed
        /\ cmds[s][i].arg \in RegisteredBy(Len(regs))

\* the announcement protocol alone: one caller of add_feed and one
\* connection whose wire yields Handshake or an error
NextOffer ==
    \/ \E c \in {"c1"} : AddFeedOp(c)
    \/ \E s \in {"s1"} : AddConnection(s) \/ SessSubscribe(s) \/ HandshakeArm(s)
                            \/ FeedArm(s) \/ RecvError(s)

\* the steps a connection task takes by itself once an event is taken or an
\* awaited call returns; open commands are assumed to return
TaskProgress(s) ==
    \/ SessSubscribe(s)
    \/ HsLock(s)
    \/ \E dk \in WireKeys : HsNext(s, dk)
    \/ HsOpenOk(s)
    \/ HsDone(s)
    \/ RecvFeedOpen(s)
    \/ RecvIgnored(s)
    \/ FdOpenOk(s)

\* the steps of an add_feed call after it was made
CallProgress(c) == AddFeedInsert(c) \/ AddFeedEmitLock(c) \/ AddFeedEmitSend(c)

\* tasks and calls are scheduled: a step that stays possible is taken
\* (futures::stream::select polls both streams in turn, the executor runs
\* every woken task)
FairSpec ==
    /\ Init /\ [][NextOffer]_vars
    /\ \A s \in {"s1"} : WF_vars(TaskProgress(s))
    /\ \A c \in {"c1"} : WF_vars(CallProgress(c))

\* the Handshake arm of session s has locked the registry (line 136)
SnapshotTaken(s) == HsSeen(s) /\ pc[s] # "hs_lock"

\* the FeedAvailable event of the n-th add_feed call
Broadcast(n) == FeedEvent(discovery_key(regs[n]), n)

\* session s has taken the broadcast of the n-th add_feed call off its receiver
Consumed(s, n) ==
    /\ pc[s] # "done"
    /\ Broadcast(n) \in Range(delivered[s])
    /\ Broadcast(n) \notin Range(queue[s])

\* C2 as stated: once a live session has taken the broadcast of a feed
\* registered after its handshake, it has issued exactly one open command for
\* that feed.
C2_ExactlyOneOpenPerLateFeed ==
    \A s \in Sessions : \A n \in DOMAIN regs :
        (SnapshotTaken(s) /\ n > snapAt[s] /\ Consumed(s, n)) =>
            Cardinality(OpensFor(s, regs[n])) = 1

C2_PerRegistration ==
    \A s \in Sessions : \A n \in DOMAIN regs :
        (SnapshotTaken(s) /\ n > snapAt[s]) =>
            /\ Cardinality(OpensForReg(s, n)) <= 1
            /\ \A i \in OpensForReg(s, n) : cmds[s][i].via = "broadcast"
            /\ Consumed(s, n) => Cardinality(OpensForReg(s, n)) = 1

\* C2 amended: for every add_feed call made after the session's handshake
\* the session issues exactly one open command, on the broadcast path, and it
\* does so eventually unless it terminates first; a feed registered twice is
\* opened twice.
C2_OneOpenPerLateRegistration ==
    /\ []C2_PerRegistration
    /\ \A s \in Sessions : \A n \in 1..MaxAddFeed :
          (n \in DOMAIN regs /\ SnapshotTaken(s) /\ n > snapAt[s])
              ~> (pc[s] = "done" \/ Cardinality(OpensForReg(s, n)) = 1)

\* a session has opened the same feed once for each of two add_feed calls
\* made after its handshake
C2_Witness ==
    \E s \in Sessions : \E n, m \in DOMAIN regs :
        /\ SnapshotTaken(s) /\ snapAt[s] < n /\ n < m
        /\ regs[n] = regs[m]
        /\ Cardinality(OpensForReg(s, n)) = 1
        /\ Cardinality(OpensForReg(s, m)) = 1

\* C4: add_peer is called only by a session that has processed its
\* Handshake, with the identity that Handshake carried; a Channel event
\* processed before the handshake never results in an add_peer call.
C4_AddPeerOnlyWithIdentity ==
    /\ \A e \in addPeerLog :
          /\ HsSeen(e.by)
          /\ e.id # None
          /\ e.id = hsKey[e.by]
    /\ \A dk \in DOMAIN feeds : \A p \in feeds[dk].peers :
          p.id # None /\ p.id = hsKey[p.by]
    /\ \A s \in Sessions : pc[s] = "ch_addpeer" => rpk[s] # None

\* a session is inside add_peer for a channel of a registered feed
C4_Witness ==
    \E s \in Sessions :
        /\ pc[s] = "ch_addpeer"
        /\ [by |-> s, key |-> cur[s], id |-> hsKey[s]] \in addPeerLog
        /\ \E p \in feeds[cur[s]].peers : p.by = s

\* C5: a Channel event whose discovery key is not in the registry when the
\* session looks it up calls no add_peer, ends nothing and changes nothing:
\* the session is back at its event loop with the state it had.
C5_UnknownChannelIsNoOp ==
    [][\A s \in Sessions :
          (pc[s] = "ch_lock" /\ pc'[s] # "ch_lock" /\ cur[s] \notin DOMAIN feeds) =>
              /\ pc'[s] = "loop"
              /\ UNCHANGED <<feeds, feedsLock, feedLock, regs, subscribers,
                             subsLock, queue, rx, emitted, delivered, rpk, cmds,
                             hsTodo, term, tasks, wire, addPeerLog, cpc, carg>>]_vars

\* a session awaiting its handshake took a Channel event for an unregistered
\* key, went on, and has taken its next wire event
C5_Witness ==
    \E s \in Sessions :
        /\ Len(wire[s]) = 2
        /\ wire[s][1] = "Channel"
        /\ wire[s][2] = "Handshake"
        /\ regs = <<>>
        /\ pc[s] = "hs_lock"

\* the discovery keys the add_feed calls so far inserted
RegisteredKeys == {discovery_key(regs[i]) : i \in DOMAIN regs}

\* the last add_feed call that inserted under dk
LastReg(dk) ==
    CHOOSE n \in DOMAIN regs :
        /\ discovery_key(regs[n]) = dk
        /\ \A m \in DOMAIN regs : discovery_key(regs[m]) = dk => m <= n

\* the FeedAvailable events dispatched so far
FeedBroadcasts == {i \in DOMAIN emitted : emitted[i].type = "Feed"}

\* add_feed calls that have inserted and not yet dispatched their event
AddFeedsEmitting == {c \in Callers : cpc[c] \in {"af_emit", "af_send"}}

\* C6: the registry holds exactly one entry per distinct discovery key
\* registered, the entry of the latest registration under that key, and one
\* FeedAvailable broadcast is dispatched per add_feed call.
C6_OneEntryPerKeyOneBroadcastPerCall ==
    /\ DOMAIN feeds = RegisteredKeys
    /\ \A dk \in DOMAIN feeds :
          /\ feeds[dk].gen = LastReg(dk)
          /\ feeds[dk].pk = regs[LastReg(dk)]
    /\ Cardinality(FeedBroadcasts) + Cardinality(AddFeedsEmitting) = Len(regs)
    /\ \A n \in DOMAIN regs :
          (\A c \in AddFeedsEmitting : feeds[discovery_key(carg[c].pk)].gen # n)
              => Cardinality({i \in FeedBroadcasts : emitted[i] = Broadcast(n)}) = 1

\* the same public key was registered twice: one entry, two broadcasts
C6_Witness ==
    /\ Len(regs) = 2
    /\ regs[1] = regs[2]
    /\ Cardinality(DOMAIN feeds) = 1
    /\ Cardinality(FeedBroadcasts) = 2
    /\ \A c \in Callers : cpc[c] = "idle"

\* the discovery keys of a stats() result
StatsKeys(val) == {val[i][1] : i \in DOMAIN val}

\* C7: stats() returns one entry per key of the registry as it is when the
\* call returns, each key once, whatever add_feed calls and sessions run
\* beside it.
C7_StatsOneEntryPerFeed ==
    [][\A c \in Callers :
          (cpc[c] = "st_iter" /\ cpc'[c] = "idle") =>
              /\ ret'[c].op = "stats"
              /\ StatsKeys(ret'[c].val) = DOMAIN feeds
              /\ Len(ret'[c].val) = Cardinality(DOMAIN feeds)]_vars

\* stats() returned one feed with a peer while an add_feed call for another
\* key was waiting for the registry
C7_Witness ==
    \E c \in Callers : \E d \in Callers :
        /\ ret[c].op = "stats"
        /\ Len(ret[c].val) = 1
        /\ ret[c].val[1][2] = 1
        /\ cpc[d] = "af_lock"
        /\ discovery_key(carg[d].pk) \notin DOMAIN feeds

EmittedSince(i) == SubSeq(emitted, subAt[i] + 1, Len(emitted))

\* s is the first Len(s) elements of t
IsPrefix(s, t) == Len(s) <= Len(t) /\ s = SubSeq(t, 1, Len(s))

\* s is the last Len(s) elements of t
IsSuffix(s, t) == Len(s) <= Len(t) /\ s = SubSeq(t, Len(t) - Len(s) + 1, Len(t))

\* C9: a subscriber's queue was sent, in dispatch order, one copy of every
\* event dispatched after it registered and none dispatched before; what is
\* still queued is the part it has not taken yet.
C9_SubscriberGetsEveryLaterEvent ==
    \A i \in SubIds :
        /\ rx[i] = "none" => (delivered[i] = <<>> /\ i \notin Range(subscribers))
        /\ rx[i] = "live" =>
              /\ delivered[i] = EmittedSince(i)
              /\ IsSuffix(queue[i], delivered[i])
        /\ rx[i] = "dropped" => IsPrefix(delivered[i], EmittedSince(i))

\* a subscriber that registered after the first dispatch pass holds the two
\* later events, which differ, in their dispatch order
C9_Witness ==
    \E i \in SubIds :
        /\ rx[i] = "live"
        /\ subAt[i] = 1
        /\ Len(emitted) = 3
        /\ queue[i] = <<emitted[2], emitted[3]>>
        /\ emitted[2].type # emitted[3].type

\* a subscriber whose receiver was dropped
Dead(i) == i \in Range(subscribers) /\ rx[i] = "dropped"

\* a subscriber whose receiver exists
Live(i) == i \in Range(subscribers) /\ rx[i] = "live"

\* C10: a dispatch pass that meets a dropped receiver still completes: every
\* live subscriber is sent its copy, the hub is unlocked, the emitter goes on
\* as after any emit and no task ends.
C10_DeadSubscriberIsIgnored ==
    [][(Len(emitted') = Len(emitted) + 1 /\ \E d \in SubIds : Dead(d)) =>
          /\ \A i \in SubIds : Live(i) =>
                queue'[i] = Append(queue[i], emitted'[Len(emitted')])
          /\ subsLock # Free /\ subsLock' = Free
          /\ \A c \in Callers : subsLock = c =>
                (cpc'[c] = "idle" /\ feedsLock' = Free)
          /\ \A s \in Sessions : subsLock = s => pc'[s] = "loop"
          /\ term' = term
          /\ rx' = rx]_vars

\* an event was dispatched after a session's receiver was dropped, and the
\* other subscriber holds it
C10_Witness ==
    \E d \in SubIds : \E i \in SubIds :
        /\ Dead(d)
        /\ Len(delivered[d]) < Len(EmittedSince(d))
        /\ Live(i)
        /\ subAt[i] >= subAt[d]
        /\ Len(delivered[i]) > Len(delivered[d])
        /\ queue[i] = delivered[i]
        /\ \A c \in Callers : cpc[c] = "idle"

\* the add_peer calls session s has made
AddPeersBy(s) == {e \in addPeerLog : e.by = s}

\* nothing of session s moves in the step: no event taken, no command sent,
\* no add_peer call, no copy of a broadcast received
Still(s) ==
    /\ pc'[s] = pc[s]
    /\ term'[s] = term[s]
    /\ rpk'[s] = rpk[s]
    /\ cmds'[s] = cmds[s]
    /\ wire'[s] = wire[s]
    /\ queue'[s] = queue[s]
    /\ delivered'[s] = delivered[s]
    /\ {e \in addPeerLog' : e.by = s} = AddPeersBy(s)

\* C11: a decode or protocol error taken off the wire stream, before or after
\* the handshake, ends the session at once; an ended session takes no event,
\* sends no open command, calls no add_peer and is never started again.
C11_ErrorTerminatesForGood ==
    [][\A s \in Sessions :
          /\ (wire'[s] # wire[s] /\ wire'[s][Len(wire'[s])] = "Error") =>
                (pc'[s] = "done" /\ term'[s] = "error" /\ cmds'[s] = cmds[s]
                    /\ {e \in addPeerLog' : e.by = s} = AddPeersBy(s))
          /\ pc[s] = "done" => (Still(s) /\ queue[s] = <<>> /\ tasks' = tasks)]_vars

\* a session that had handshaken and opened a feed was ended by an error, and
\* an event dispatched afterwards did not reach it
C11_Witness ==
    \E s \in Sessions :
        /\ term[s] = "error"
        /\ rpk[s] # None
        /\ cmds[s] # <<>>
        /\ Len(delivered[s]) < Len(EmittedSince(s))

\* C12: a failed open command, on the snapshot path or on the broadcast path,
\* ends the session as a decode error does: no later event is taken and no
\* further open command sent, the rest of a snapshot in progress included.
C12_OpenFailureTerminates ==
    [][\A s \in Sessions :
          /\ term'[s] = "panic" => pc'[s] = "done"
          /\ (term[s] = None /\ term'[s] = "panic" /\ pc[s] \in {"hs_open", "fd_open"}) =>
                (cmds'[s] = cmds[s] /\ hsTodo'[s] = {} /\ queue'[s] = <<>>)
          /\ term[s] = "panic" => (Still(s) /\ hsTodo'[s] = hsTodo[s])]_vars

\* the first open of a snapshot of two feeds failed: the session is ended and
\* the second feed was never opened
C12_Witness ==
    \E s \in Sessions :
        /\ term[s] = "panic"
        /\ snapAt[s] = 2
        /\ Cardinality(DOMAIN feeds) = 2
        /\ Len(cmds[s]) = 1
        /\ cmds[s][1].via = "snapshot"

\* C14: no session holds the registry lock while one of its open commands is
\* in flight.
C14_NoOpenUnderRegistryLock ==
    \A s \in Sessions : pc[s] \in {"hs_open", "fd_open"} => feedsLock # s

\* C16: a session sends no open command while its remote identity is absent:
\* every command follows the session's Handshake, and a FeedAvailable event
\* taken before the handshake sends nothing and changes nothing but the
\* receiver it was taken from.
C16_NoOpenBeforeHandshake ==
    [][\A s \in Sessions :
          /\ cmds'[s] # cmds[s] => (HsSeen(s) /\ rpk[s] # None /\ rpk[s] = hsKey[s])
          /\ (rpk[s] = None /\ pc[s] = "loop" /\ queue[s] # <<>> /\ wire'[s] = wire[s]
                /\ queue'[s] = Tail(queue[s]) /\ Head(queue[s]).type = "Feed") =>
                UNCHANGED <<feeds, feedsLock, feedLock, regs, subscribers,
                            subsLock, rx, emitted, delivered, pc, rpk, cur, cmds,
                            hsTodo, term, tasks, wire, addPeerLog, cpc, carg>>]_vars

\* a session awaiting its handshake has taken the broadcast of a registered
\* feed and sent nothing
C16_Witness ==
    \E s \in Sessions : \E n \in DOMAIN regs :
        /\ Consumed(s, n)
        /\ rpk[s] = None
        /\ pc[s] = "loop"
        /\ cmds[s] = <<>>

\* session s took the broadcast of the n-th add_feed call and sent no command
\* for it
DroppedOffer(s, n) ==
    /\ Consumed(s, n)
    /\ \A i \in OpensForReg(s, n) : cmds[s][i].via # "broadcast"

\* the public keys of the entries the Handshake arm of s has opened or has
\* still to open
SnapshotFeeds(s) ==
    {cmds[s][i].feed : i \in {j \in DOMAIN cmds[s] : cmds[s][j].via = "snapshot"}}
        \cup {feeds[dk].pk : dk \in hsTodo[s]}

\* session s is Active, between events, with nothing left to take, and every
\* add_feed call made so far has returned
Drained(s) ==
    /\ pc[s] = "loop"
    /\ rpk[s] # None
    /\ queue[s] = <<>>
    /\ AddFeedsEmitting = {}

\* C15: a FeedAvailable event dropped before the handshake is no lost offer:
\* its feed is in the snapshot the Handshake arm takes, the snapshot holds
\* exactly the feeds registered before it, and an Active session that has
\* drained its events has sent at least one open command for every feed
\* registered so far.
C15_DroppedOfferIsInSnapshot ==
    \A s \in Sessions :
        /\ \A n \in DOMAIN regs :
              (DroppedOffer(s, n) /\ SnapshotTaken(s)) => n <= snapAt[s]
        /\ pc[s] \in {"hs_iter", "hs_open"} => SnapshotFeeds(s) = RegisteredBy(snapAt[s])
        /\ Drained(s) => \A n \in DOMAIN regs : OpensFor(s, regs[n]) # {}

\* an Active session with nothing left to take had dropped the broadcast of a
\* feed before its handshake and has opened that feed from the snapshot
C15_Witness ==
    \E s \in Sessions : \E n \in DOMAIN regs :
        /\ Drained(s)
        /\ DroppedOffer(s, n)
        /\ \E i \in OpensFor(s, regs[n]) : cmds[s][i].via = "snapshot"
        /\ Len(regs) = 2
        /\ regs[1] # regs[2]

\* the UnknownFeedRequested events dispatched so far
DkeyBroadcasts == {i \in DOMAIN emitted : emitted[i].type = "DiscoveryKey"}

\* the DiscoveryKey wire events session s has taken
DkeysTaken(s) == {i \in DOMAIN wire[s] : wire[s][i] = "DiscoveryKey"}

\* sessions that took a DiscoveryKey event and have not dispatched it yet
DkeysEmitting == {s \in Sessions : pc[s] \in {"dk_lock", "dk_send"}}

\* what the DiscoveryKey arm and the taking of an UnknownFeedRequested event
\* leave alone: registry, commands, identity, add_peer calls, task status
DkeyFrame(s) ==
    /\ UNCHANGED <<feeds, feedsLock, feedLock, regs, subscribers, rx, tasks,
                   addPeerLog, cpc, carg, term>>
    /\ cmds'[s] = cmds[s]
    /\ rpk'[s] = rpk[s]
    /\ wire'[s] = wire[s]

\* C17: a session that takes DiscoveryKey(k) dispatches one
\* UnknownFeedRequested(k) to every subscriber registered at that moment and
\* does nothing else; it goes on with its loop, and a session that takes an
\* UnknownFeedRequested event off its receiver does nothing, so one broadcast
\* is dispatched per DiscoveryKey wire event and no more.
C17_DiscoveryKeyIsRebroadcastOnce ==
    /\ [](Cardinality(DkeyBroadcasts) + Cardinality(DkeysEmitting)
              = Cardinality(UNION {{<<s, i>> : i \in DkeysTaken(s)} : s \in Sessions}))
    /\ [][\A s \in Sessions :
          /\ (wire'[s] # wire[s] /\ wire'[s][Len(wire'[s])] = "DiscoveryKey") =>
                (pc'[s] = "dk_lock" /\ emitted' = emitted /\ queue' = queue
                    /\ cmds'[s] = cmds[s] /\ term' = term /\ feeds' = feeds)
          /\ (pc[s] = "dk_lock" /\ pc'[s] # "dk_lock") =>
                (pc'[s] = "dk_send" /\ subsLock' = s /\ emitted' = emitted
                    /\ queue' = queue /\ DkeyFrame(s))
          /\ (pc[s] = "dk_send" /\ pc'[s] # "dk_send") =>
                /\ pc'[s] = "loop"
                /\ emitted' = Append(emitted, DkeyEvent(cur[s]))
                /\ \A i \in SubIds :
                      queue'[i] = IF Live(i) THEN Append(queue[i], DkeyEvent(cur[s]))
                                  ELSE queue[i]
                /\ subsLock' = Free
                /\ DkeyFrame(s)
          /\ (pc[s] = "loop" /\ queue[s] # <<>> /\ Head(queue[s]).type = "DiscoveryKey"
                /\ queue'[s] = Tail(queue[s]) /\ wire'[s] = wire[s]) =>
                (pc'[s] = "loop" /\ emitted' = emitted /\ subsLock' = subsLock
                    /\ DkeyFrame(s))]_vars

\* a session dispatched UnknownFeedRequested for a key it was asked for: the
\* outside subscriber holds the copy, the session has taken its own copy and
\* is back at its loop, and that one broadcast is all there is
C17_Witness ==
    \E s \in Sessions : \E x \in ExtSubs :
        /\ pc[s] = "loop"
        /\ Cardinality(DkeysTaken(s)) = 1
        /\ Cardinality(DkeyBroadcasts) = 1
        /\ queue[s] = <<>>
        /\ \E i \in DOMAIN delivered[s] : delivered[s][i].type = "DiscoveryKey"
        /\ \E i \in DOMAIN queue[x] : queue[x][i].type = "DiscoveryKey"
        /\ feeds # <<>>

\* connection tasks recorded in Replicator.tasks that are still running and
\* never negotiated a feed channel
IdleConnections ==
    {s \in Range(tasks) : pc[s] # "done" /\ AddPeersBy(s) = {}}

StateRank(p, id) == IF p = "done" THEN 3 ELSE IF id = None THEN 1 ELSE 2

\* the open commands session s sent from its snapshot for the feed pk
SnapshotOpens(s, pk) ==
    {i \in DOMAIN cmds[s] : cmds[s][i].via = "snapshot" /\ cmds[s][i].feed = pk}

NextTwo ==
    \/ \E c \in {"c1"} : AddFeedOp(c)
    \/ \E s \in {"s1"} : AddConnection(s) \/ SessSubscribe(s) \/ HandshakeArm(s)
                            \/ RecvError(s)
    \/ \E s \in {"s2"} : AddConnection(s) \/ SessSubscribe(s) \/ HandshakeArm(s)

SpecTwo == Init /\ [][NextTwo]_vars

\* the locks session s holds
LocksHeldBy(s) ==
    {l \in {"feeds", "subscribers"} :
        (l = "feeds" /\ feedsLock = s) \/ (l = "subscribers" /\ subsLock = s)}
        \cup {f \in PublicKeys : feedLock[f] = s}

\* C13: the end of one session, by a decode error or by a failed open command
\* sent with the registry locked, ends no other session and leaves no lock
\* behind: the step changes nothing of the other sessions, of the callers, of
\* the registry or of the hub's senders, and an ended session holds no lock.
C13_FailureStaysInItsSession ==
    /\ [](\A s \in Sessions : pc[s] = "done" => LocksHeldBy(s) = {})
    /\ [][\A s \in Sessions :
          (pc[s] # "done" /\ pc'[s] = "done") =>
              /\ \A t \in Sessions \ {s} :
                    /\ pc'[t] = pc[t] /\ term'[t] = term[t] /\ rx'[t] = rx[t]
                    /\ queue'[t] = queue[t] /\ cmds'[t] = cmds[t]
                    /\ rpk'[t] = rpk[t] /\ hsTodo'[t] = hsTodo[t]
              /\ UNCHANGED <<cpc, carg, feeds, regs, subscribers, emitted, tasks>>
              /\ feedsLock' = Unlock(feedsLock, s)
              /\ subsLock' = Unlock(subsLock, s)]_vars

\* the open command of one session failed while it held the registry; an
\* add_feed call made afterwards has returned and the other session has
\* taken its snapshot, the new feed included, and is opening it
C13_Witness ==
    \E s \in Sessions : \E t \in Sessions \ {s} :
        /\ term[s] = "panic"
        /\ Len(regs) > snapAt[s]
        /\ \A c \in Callers : cpc[c] = "idle"
        /\ pc[t] = "hs_open"
        /\ feedsLock = t
        /\ snapAt[t] = Len(regs)

\* every user of the two locks: a caller of add_feed, a caller of stats and a
\* connection that subscribes and handles every kind of event
NextLocks ==
    \/ \E c \in {"c1"} : AddFeedOp(c)
    \/ \E c \in {"c2"} : StatsOp(c)
    \/ \E s \in {"s1"} : AddConnection(s) \/ SessSubscribe(s) \/ HandshakeArm(s)
                            \/ ChannelArm(s) \/ DiscoveryKeyArm(s) \/ FeedArm(s)

SpecLocks == Init /\ [][NextLocks]_vars

\* the steps a connection task takes by itself; open commands and add_peer
\* calls are assumed to return
LockProgress(s) ==
    \/ TaskProgress(s)
    \/ ChDrop(s) \/ ChPanic(s) \/ ChAddPeer(s) \/ ChAddPeerDone(s)
    \/ DkEmitLock(s) \/ DkEmitSend(s)

\* the steps of a stats call after it was made
StatsProgress(c) == StatsLock(c) \/ (\E dk \in WireKeys : StatsStep(c, dk)) \/ StatsReturn(c)

\* tasks and calls are scheduled and awaited collaborator calls return
FairLocks ==
    /\ Init /\ [][NextLocks]_vars
    /\ \A s \in {"s1"} : WF_vars(LockProgress(s))
    /\ \A c \in {"c1"} : WF_vars(CallProgress(c))
    /\ \A c \in {"c2"} : WF_vars(StatsProgress(c))

\* where a caller or a session waits for the registry lock, and for the hub lock
AwaitsRegistry(p) ==
    \/ p \in Callers /\ cpc[p] \in {"af_lock", "st_lock", "ja_lock"}
    \/ p \in Sessions /\ pc[p] \in {"hs_lock", "ch_lock"}

AwaitsHub(p) ==
    \/ p \in Callers /\ cpc[p] = "af_emit"
    \/ p \in Sessions /\ pc[p] \in {"sub", "dk_lock"}

\* locks are taken in one order: the hub holder and a feed holder wait for no
\* lock, the registry is taken with no lock held, and a feed is only locked
\* by the holder of the registry
LockOrder ==
    /\ \A p \in Callers \cup Sessions :
          /\ subsLock = p => ~AwaitsRegistry(p) /\ ~AwaitsHub(p)
          /\ AwaitsRegistry(p) => (feedsLock # p /\ LocksHeldBy(p) = {})
          /\ AwaitsHub(p) => \A f \in PublicKeys : feedLock[f] # p
    /\ \A c \in Callers :
          /\ feedsLock = c => cpc[c] \in {"af_emit", "af_send", "st_iter", "ja_wait"}
          /\ subsLock = c => cpc[c] = "af_send"
    /\ \A s \in Sessions :
          /\ feedsLock = s => pc[s] \in {"hs_iter", "hs_open", "ch_addpeer"}
          /\ subsLock = s => pc[s] = "dk_send"
          /\ \A f \in PublicKeys : feedLock[f] = s => (pc[s] = "hs_open" /\ feedsLock = s)

\* C20: the locks are taken in one order, registry before hub and registry
\* before feed, and, open commands and peer-session calls returning, every
\* request for the registry lock or the hub lock is granted and every call
\* returns.
C20_LocksGrantedInOrder ==
    /\ []LockOrder
    /\ \A p \in {"c1", "c2", "s1"} : AwaitsRegistry(p) ~> ~AwaitsRegistry(p)
    /\ \A p \in {"c1", "c2", "s1"} : AwaitsHub(p) ~> ~AwaitsHub(p)
    /\ \A c \in {"c1", "c2"} : (cpc[c] # "idle") ~> (cpc[c] = "idle")

\* add_feed holds the registry and waits for the hub, which the session
\* holds for its dispatch, while stats waits for the registry
C20_Witness ==
    \E c \in Callers : \E d \in Callers : \E s \in Sessions :
        /\ cpc[c] = "af_emit" /\ feedsLock = c
        /\ pc[s] = "dk_send" /\ subsLock = s
        /\ cpc[d] = "st_lock"

====
